---- MODULE Spec2Model ----
(***************************************************************************)
(* The session / photo lifecycle of the photo selection server             *)
(* (src/server.js): the in-memory document dbData.sessions, the persisted  *)
(* document db.json, the upload directory, and the HTTP handlers with the  *)
(* points at which they are suspended on file I/O (await).                 *)
(*                                                                         *)
(* JavaScript strings are modelled as sequences of one-character strings,  *)
(* so that the empty string is falsy, toLowerCase() and includes() are     *)
(* computed, and identifiers can be searched.                              *)
(***************************************************************************)
EXTENDS Integers, Sequences, FiniteSets, Bags, TLC

\* ------------------------------------------------------------------ bounds
\* number of uuidv4() calls a behaviour may make
MaxUuid == 2
\* number of sessions in the db.json the listing server loads
MaxListed == 15
\* number of fs.writeFile calls on db.json that may be pending at the same time
MaxWrites == 2

\* ------------------------------------------------------------------ program constants
\* the defaults of the page and limit query fields
PAGE_DEFAULT == 1
LIMIT_DEFAULT == 10
\* parseInt reads decimal digits
RADIX == 10

VARIABLES
    sessions,   \* dbData.sessions: insertion-ordered sequence of session entries
    files,      \* the file names present in UPLOAD_DIR
    disk,       \* db.json: [state, text], the text as a JSON value
    now,        \* the last reading of the wall clock
    uuid,       \* number of uuidv4() calls made so far
    fileSeq,    \* number of files multer has stored so far
    reqs,       \* the bag of handlers suspended on an await
    ev,         \* the step taken last: the operation and the HTTP status it answers with
    boot,       \* the sessions loadData found in db.json at start-up
    portfolio,  \* dbData.portfolioItems: the sequence of portfolio items
    qrcodes     \* the session ids that have a file in QRCODE_DIR

vars == <<sessions, files, disk, now, uuid, fileSeq, reqs, ev, boot, portfolio, qrcodes>>

\* ------------------------------------------------------------------ text
\* the empty string: what a missing or empty request field is (falsy in JS)
NoText == <<>>

\* the sentinel customer name
UNKNOWN_CUSTOMER == <<"?">>

\* String.prototype.toLowerCase on one character
LowerChar(c) ==
    CASE c = "A" -> "a"
      [] c = "B" -> "b"
      [] OTHER -> c

toLowerCase(s) == [i \in 1..Len(s) |-> LowerChar(s[i])]

\* String.prototype.includes
includes(hay, needle) ==
    \E i \in 0..(Len(hay) - Len(needle)) :
        SubSeq(hay, i + 1, i + Len(needle)) = needle

\* the n-th value uuidv4() returns: never one returned before, never one that
\* was in db.json at start-up
uuidv4(n) == <<"u", ToString(n)>>

\* the name multer gives the n-th stored file
MulterFilename(n) == <<"f", ToString(n)>>

\* `${BASE_URL}/uploads/${req.file.filename}`
PhotoUrl(filename) == <<"/">> \o filename

\* ------------------------------------------------------------------ dbData.sessions as an ordered object
Keys(ss) == {ss[i].id : i \in 1..Len(ss)}

\* dbData.sessions[id] is truthy
Has(ss, id) == id \in Keys(ss)

IndexOf(ss, id) == CHOOSE i \in 1..Len(ss) : ss[i].id = id

Get(ss, id) == ss[IndexOf(ss, id)]

\* delete dbData.sessions[id]: a no-op when the key is absent
DeleteKey(ss, id) == SelectSeq(ss, LAMBDA e : e.id # id)

\* dbData.sessions[id] = entry: an existing key keeps its position, a new one
\* goes last
SetKey(ss, id, entry) ==
    IF Has(ss, id)
    THEN [ss EXCEPT ![IndexOf(ss, id)] = entry]
    ELSE Append(ss, entry)

\* createNewSession(sessionId, customerName), at clock reading t
createNewSession(ss, sessionId, customerName, t) ==
    SetKey(ss, sessionId,
           [id |-> sessionId,
            customerName |-> customerName,
            photos |-> <<>>,
            status |-> "draft",
            createdAt |-> t])

\* ------------------------------------------------------------------ requests in flight
\* what a suspended handler still needs when it resumes: where it is, the
\* session it is deleting, the unlinks it waits for, and the text saveData
\* handed to fs.writeFile (the sessions and the portfolio items in it)
Request(pc, sid, pending, snap) ==
    [pc |-> pc, sid |-> sid, pending |-> pending, snap |-> snap,
     items |-> portfolio]

InFlight == BagToSet(reqs)

Writes == {r \in InFlight : r.pc = "saving"}

Unlinks == InFlight \ Writes

\* the file system takes the unlinks of one handler at a time: a handler
\* that unlinks is started when no other is suspended on fs.unlink (the
\* handlers that do not unlink are served meanwhile)
CanUnlink == Unlinks = {}

\* the number of suspended handlers among rs
Pending(rs) == IF rs = {} THEN 0 ELSE BagCardinality([r \in rs |-> reqs[r]])

\* saveData() may be called while fewer than MaxWrites writes are pending
CanSave == Pending(Writes) < MaxWrites

Suspend(rs, r) == rs (+) SetToBag({r})

Resume(rs, r) == rs (-) SetToBag({r})

\* saveData() up to its await: JSON.stringify(dbData) is taken when saveData
\* is called, fs.writeFile settles later
Saving(ss) == Request("saving", NoText, {}, ss)

Event(op, code) == [op |-> op, code |-> code]

\* ------------------------------------------------------------------ inputs
\* customer names a request may carry (NoText: the field is missing or empty)
CustomerNames == {NoText, <<"A", "b">>}

\* an identifier uuidv4 does not return: one that was in db.json before this
\* run, or one a client made up
PriorId == <<"p">>

\* the session ids a path parameter may carry: those of the sessions held and
\* one more
PathIds == Keys(sessions) \cup {PriorId}

\* the session ids a body or query field may carry, NoText when it is missing
FieldIds == PathIds \cup {NoText}

\* the reading new Date() returns next: the clock has moved on since the
\* last reading
ClockReadings == {now + 1}

\* ------------------------------------------------------------------ start-up
EmptySessions == <<>>

NoItems == <<>>

\* ------------------------------------------------------------------ JSON.stringify, JSON.parse
\* a JSON text, as the value it denotes: a string, a boolean, an array of
\* values, or an object as the sequence of its members in the order written
JString(s) == [type |-> "string", value |-> s]

JBoolean(b) == [type |-> "boolean", value |-> b]

JArray(values) == [type |-> "array", value |-> values]

JObject(members) == [type |-> "object", value |-> members]

Member(key, value) == [key |-> key, value |-> value]

\* StringifyPhoto with a slip: a false `selected` is left out, as an
\* undefined property would be
StringifyPhoto_NoFalse(photo) ==
    JObject(<<Member("id", JString(photo.id)),
              Member("url", JString(photo.url)),
              Member("filename", JString(photo.filename))>>
            \o (IF photo.selected
                THEN <<Member("selected", JBoolean(photo.selected))>>
                ELSE <<>>))

\* JSON.stringify of a photo record: its own properties in creation order
StringifyPhoto(photo) ==
    JObject(<<Member("id", JString(photo.id)),
              Member("url", JString(photo.url)),
              Member("filename", JString(photo.filename)),
              Member("selected", JBoolean(photo.selected))>>)

\* JSON.stringify of a session record (createdAt is held as an ISO string)
StringifySession(session) ==
    JObject(<<Member("customerName", JString(session.customerName)),
              Member("photos",
                     JArray([i \in 1..Len(session.photos) |->
                                StringifyPhoto(session.photos[i])])),
              Member("status", JString(session.status)),
              Member("createdAt", JString(session.createdAt))>>)

\* JSON.stringify of dbData.sessions: one member for each key, in key order
StringifySessions(ss) ==
    JObject([i \in 1..Len(ss) |-> Member(ss[i].id, StringifySession(ss[i]))])

\* JSON.stringify of a portfolio item
StringifyItem(item) ==
    JObject(<<Member("id", JString(item.id)),
              Member("title", JString(item.title)),
              Member("description", JString(item.description)),
              Member("category", JString(item.category)),
              Member("url", JString(item.url)),
              Member("filename", JString(item.filename)),
              Member("createdAt", JString(item.createdAt))>>)

\* JSON.stringify(dbData, null, 2)
stringify(ss, items) ==
    JObject(<<Member("sessions", StringifySessions(ss)),
              Member("portfolioItems",
                     JArray([i \in 1..Len(items) |-> StringifyItem(items[i])]))>>)

\* the names of the members of a JSON object
MemberKeys(json) == {json.value[i].key : i \in 1..Len(json.value)}

\* the value a property has after the object was parsed: that of the last
\* member of that name
Property(json, key) ==
    LET last == CHOOSE i \in 1..Len(json.value) :
                    /\ json.value[i].key = key
                    /\ \A j \in (i + 1)..Len(json.value) : json.value[j].key # key
    IN json.value[last].value

RECURSIVE parse(_)
\* JSON.parse: an object becomes a record of its properties, an array the
\* sequence of its elements, a string or boolean its value
parse(json) ==
    CASE json.type = "object" ->
            [key \in MemberKeys(json) |-> parse(Property(json, key))]
      [] json.type = "array" ->
            [i \in 1..Len(json.value) |-> parse(json.value[i])]
      [] OTHER -> json.value

\* the object parsed from the `sessions` member, as the ordered entries
\* dbData.sessions is held as: a key and the record parsed from its value
ParseSessions(json) ==
    [i \in 1..Len(json.value) |->
        [id |-> json.value[i].key] @@ parse(json.value[i].value)]

\* dbData after `dbData = JSON.parse(data)` and the portfolioItems default
\* of loadData
Parsed(text) ==
    [sessions |-> ParseSessions(Property(text, "sessions")),
     portfolioItems |->
        IF "portfolioItems" \in MemberKeys(text)
        THEN parse(Property(text, "portfolioItems"))
        ELSE NoItems]

\* ------------------------------------------------------------------ db.json
\* db.json when it can be read and parsed: the text written by saveData for
\* the sessions ss and the portfolio items
DocumentOf(state, ss, items) ==
    [state |-> state, text |-> stringify(ss, items)]

\* db.json when it is not there ("missing") or does not parse ("truncated")
Unreadable(state) == [state |-> state, text |-> NoText]

\* db.json holding the sessions ss and the portfolio items in memory
Document(state, ss) == DocumentOf(state, ss, portfolio)

\* documents db.json may hold when the server starts
LoadableDocs ==
    { EmptySessions,
      << [id |-> PriorId, customerName |-> UNKNOWN_CUSTOMER, photos |-> <<>>,
          status |-> "draft", createdAt |-> 0] >> }

\* loadData(): the state when app.listen is called, for a db.json that holds
\* one of LoadableDocs
Init ==
    /\ sessions \in LoadableDocs
    /\ disk = DocumentOf("ok", sessions, NoItems)
    /\ boot = sessions
    /\ files = {}
    /\ now = 0
    /\ uuid = 0
    /\ fileSeq = 0
    /\ reqs = EmptyBag
    /\ portfolio = NoItems
    /\ qrcodes = {}
    /\ ev = Event("listen", 0)

\* ------------------------------------------------------------------ POST /upload
\* Backfill with a slip: the stored name is not compared with the sentinel
Backfill_AnyStored(ss, sid, customerName) ==
    IF customerName # NoText
    THEN SetKey(ss, sid, [Get(ss, sid) EXCEPT !.customerName = customerName])
    ELSE ss

\* the else branch of the session lookup: backfill of the customer name
Backfill(ss, sid, customerName) ==
    IF customerName # NoText /\ Get(ss, sid).customerName = UNKNOWN_CUSTOMER
    THEN SetKey(ss, sid, [Get(ss, sid) EXCEPT !.customerName = customerName])
    ELSE ss

\* the record the upload handler pushes
NewPhoto(photoId, filename) ==
    [id |-> photoId, url |-> PhotoUrl(filename), filename |-> filename,
     selected |-> FALSE]

\* PushPhoto with a slip: unshift instead of push
PushPhoto_Unshift(ss, sid, photoId, filename) ==
    SetKey(ss, sid,
           [Get(ss, sid) EXCEPT !.photos = <<NewPhoto(photoId, filename)>> \o @])

\* dbData.sessions[sid].photos.push({...})
PushPhoto(ss, sid, photoId, filename) ==
    SetKey(ss, sid,
           [Get(ss, sid) EXCEPT !.photos = Append(@, NewPhoto(photoId, filename))])

\* the session id the upload handler works on and answers with
CurrentSessionId(sidIn, newId) == IF sidIn = NoText THEN newId ELSE sidIn

\* UploadSessions with a slip: a session id that is not in the repository is
\* replaced by a generated one
UploadSessions_AlwaysNewId(ss, sidIn, nameIn, photoId, newId, filename, t) ==
    LET customerName == IF nameIn = NoText THEN UNKNOWN_CUSTOMER ELSE nameIn
        creates == sidIn = NoText \/ ~Has(ss, sidIn)
        currentSessionId == IF creates THEN newId ELSE sidIn
        prepared ==
            IF creates
            THEN createNewSession(ss, currentSessionId, customerName, t)
            ELSE Backfill(ss, currentSessionId, customerName)
    IN PushPhoto(prepared, currentSessionId, photoId, filename)

\* the in-memory effect of the upload handler, at clock reading t, with
\* photoId and newId the next two values of uuidv4()
UploadSessions(ss, sidIn, nameIn, photoId, newId, filename, t) ==
    LET customerName == IF nameIn = NoText THEN UNKNOWN_CUSTOMER ELSE nameIn
        currentSessionId == CurrentSessionId(sidIn, newId)
        prepared ==
            IF sidIn = NoText \/ ~Has(ss, sidIn)
            THEN createNewSession(ss, currentSessionId, customerName, t)
            ELSE Backfill(ss, currentSessionId, customerName)
    IN PushPhoto(prepared, currentSessionId, photoId, filename)

UploadNoFile ==
    /\ ev' = Event("upload", 400)
    /\ UNCHANGED <<sessions, files, disk, now, uuid, fileSeq, reqs, boot, portfolio, qrcodes>>

\* multer has stored the file; the handler runs up to `await saveData()`
Upload(sidIn, nameIn) ==
    LET photoId == uuidv4(uuid + 1)
        newId == uuidv4(uuid + 2)
        creates == sidIn = NoText \/ ~Has(sessions, sidIn)
        calls == IF sidIn = NoText THEN 2 ELSE 1
        filename == MulterFilename(fileSeq + 1)
    IN /\ CanSave
       /\ uuid + calls <= MaxUuid
       /\ \E t \in (IF creates THEN ClockReadings ELSE {now}) :
            /\ now' = t
            /\ sessions' = UploadSessions(sessions, sidIn, nameIn, photoId,
                                          newId, filename, t)
       /\ files' = files \cup {filename}
       /\ fileSeq' = fileSeq + 1
       /\ uuid' = uuid + calls
       /\ reqs' = Suspend(reqs, Saving(sessions'))
       /\ ev' = Event("upload", 200)
       /\ UNCHANGED <<disk, boot, portfolio, qrcodes>>

\* ------------------------------------------------------------------ DELETE /photo/:sessionId/:photoId
PhotoIds(session) == {session.photos[i].id : i \in 1..Len(session.photos)}

\* sessionPhotos.findIndex(p => p.id === photoId), for a photo that is there
findIndex(photos, photoId) ==
    CHOOSE i \in 1..Len(photos) :
        /\ photos[i].id = photoId
        /\ \A j \in 1..(i - 1) : photos[j].id # photoId

\* sessionPhotos.splice(photoIndex, 1)
splice(photos, photoIndex) ==
    SubSeq(photos, 1, photoIndex - 1) \o SubSeq(photos, photoIndex + 1, Len(photos))

\* RemovePhotoSessions with a slip: the emptied session is kept
RemovePhotoSessions_KeepsEmpty(ss, sid, photoId) ==
    LET session == Get(ss, sid)
        rest == splice(session.photos, findIndex(session.photos, photoId))
    IN SetKey(ss, sid, [session EXCEPT !.photos = rest])

\* the in-memory effect of the delete-photo handler: the photo is spliced
\* out and a session left without photos is deleted
RemovePhotoSessions(ss, sid, photoId) ==
    LET session == Get(ss, sid)
        rest == splice(session.photos, findIndex(session.photos, photoId))
    IN IF Len(rest) = 0
       THEN DeleteKey(ss, sid)
       ELSE SetKey(ss, sid, [session EXCEPT !.photos = rest])

\* the HTTP status the delete-photo handler answers with
RemovePhotoCode(ss, sid, photoId) ==
    IF ~Has(ss, sid) THEN 404
    ELSE IF photoId \notin PhotoIds(Get(ss, sid)) THEN 404
    ELSE 200

\* the handler up to `await fs.unlink(filePath)`
RemovePhoto(sid, photoId) ==
    LET code == RemovePhotoCode(sessions, sid, photoId) IN
    /\ ev' = Event("removePhoto", code)
    /\ IF code = 200
       THEN LET photos == Get(sessions, sid).photos
                filename == photos[findIndex(photos, photoId)].filename
            IN /\ CanUnlink
               /\ sessions' = RemovePhotoSessions(sessions, sid, photoId)
               /\ reqs' = Suspend(reqs, Request("unlinkPhoto", NoText,
                                                {filename}, EmptySessions))
       ELSE UNCHANGED <<sessions, reqs>>
    /\ UNCHANGED <<files, disk, now, uuid, fileSeq, boot, portfolio, qrcodes>>

\* fs.unlink(filePath) settles: the file is gone, or it was missing (ENOENT),
\* or the deletion failed for another reason; all three are only logged
unlink(fs, filename, fails) == IF fails THEN fs ELSE fs \ {filename}

\* the delete-photo handler resumes after its unlink and calls saveData()
RemovePhotoUnlinked(r, fails) ==
    /\ r \in InFlight
    /\ r.pc = "unlinkPhoto"
    /\ CanSave
    /\ \E filename \in r.pending : files' = unlink(files, filename, fails)
    /\ reqs' = Suspend(Resume(reqs, r), Saving(sessions))
    /\ ev' = Event("unlinked", 0)
    /\ UNCHANGED <<sessions, disk, now, uuid, fileSeq, boot, portfolio, qrcodes>>

\* ------------------------------------------------------------------ DELETE /session/:sessionId
Filenames(session) == {session.photos[i].filename : i \in 1..Len(session.photos)}

DeleteSessionCode(ss, sid) == IF ~Has(ss, sid) THEN 404 ELSE 200

\* the handler up to `await Promise.all(deleteFilePromises)`; with no photo
\* the promise is already settled and the handler runs on to saveData()
\* before any other request is served
DeleteSession(sid) ==
    LET code == DeleteSessionCode(sessions, sid) IN
    /\ ev' = Event("deleteSession", code)
    /\ IF code = 200
       THEN LET pending == Filenames(Get(sessions, sid))
            IN /\ IF pending = {} THEN CanSave ELSE CanUnlink
               /\ IF pending = {}
                  THEN /\ sessions' = DeleteKey(sessions, sid)
                       /\ reqs' = Suspend(reqs, Saving(sessions'))
                  ELSE /\ sessions' = sessions
                       /\ reqs' = Suspend(reqs, Request("unlinkSession", sid,
                                                        pending, EmptySessions))
       ELSE UNCHANGED <<sessions, reqs>>
    /\ UNCHANGED <<files, disk, now, uuid, fileSeq, boot, portfolio, qrcodes>>

\* DeleteSessionUnlinked with a slip: the unlink of a missing file is not
\* caught, Promise.all rejects and the handler ends there
DeleteSessionUnlinked_StopsOnMissing(r, filename, fails) ==
    /\ r \in InFlight
    /\ r.pc = "unlinkSession"
    /\ filename \in r.pending
    /\ files' = unlink(files, filename, fails)
    /\ IF filename \notin files
       THEN /\ sessions' = sessions
            /\ reqs' = Resume(reqs, r)
       ELSE IF r.pending = {filename}
       THEN /\ CanSave
            /\ sessions' = DeleteKey(sessions, r.sid)
            /\ reqs' = Suspend(Resume(reqs, r), Saving(sessions'))
       ELSE /\ sessions' = sessions
            /\ reqs' = Suspend(Resume(reqs, r),
                               [r EXCEPT !.pending = @ \ {filename}])
    /\ ev' = Event("unlinked", 0)
    /\ UNCHANGED <<disk, now, uuid, fileSeq, boot, portfolio, qrcodes>>

\* one of the session's unlinks settles; after the last one Promise.all
\* resolves and the handler deletes the record and calls saveData()
DeleteSessionUnlinked(r, filename, fails) ==
    /\ r \in InFlight
    /\ r.pc = "unlinkSession"
    /\ filename \in r.pending
    /\ files' = unlink(files, filename, fails)
    /\ IF r.pending = {filename}
       THEN /\ CanSave
            /\ sessions' = DeleteKey(sessions, r.sid)
            /\ reqs' = Suspend(Resume(reqs, r), Saving(sessions'))
       ELSE /\ sessions' = sessions
            /\ reqs' = Suspend(Resume(reqs, r),
                               [r EXCEPT !.pending = @ \ {filename}])
    /\ ev' = Event("unlinked", 0)
    /\ UNCHANGED <<disk, now, uuid, fileSeq, boot, portfolio, qrcodes>>

\* ------------------------------------------------------------------ POST /finishSession
\* FinishSessionCode with a slip: the check for photos is missing
FinishSessionCode_NoEmptyCheck(ss, sid) ==
    IF sid = NoText \/ ~Has(ss, sid) THEN 404 ELSE 200

FinishSessionCode(ss, sid) ==
    IF sid = NoText \/ ~Has(ss, sid) THEN 404
    ELSE IF Len(Get(ss, sid).photos) = 0 THEN 400
    ELSE 200

\* dbData.sessions[sessionId].status = 'ready'
FinishSessionSessions(ss, sid) ==
    SetKey(ss, sid, [Get(ss, sid) EXCEPT !.status = "ready"])

FinishSession(sid) ==
    LET code == FinishSessionCode(sessions, sid) IN
    /\ ev' = Event("finishSession", code)
    /\ IF code = 200
       THEN /\ CanSave
            /\ sessions' = FinishSessionSessions(sessions, sid)
            /\ reqs' = Suspend(reqs, Saving(sessions'))
       ELSE UNCHANGED <<sessions, reqs>>
    /\ UNCHANGED <<files, disk, now, uuid, fileSeq, boot, portfolio, qrcodes>>

\* ------------------------------------------------------------------ GET /sessions
\* a JavaScript number: an integer or NaN
Num(n) == [nan |-> FALSE, n |-> n]

NaN == [nan |-> TRUE, n |-> 0]

Sub(a, b) == IF a.nan \/ b.nan THEN NaN ELSE Num(a.n - b.n)

Mul(a, b) == IF a.nan \/ b.nan THEN NaN ELSE Num(a.n * b.n)

Add(a, b) == IF a.nan \/ b.nan THEN NaN ELSE Num(a.n + b.n)

Digits == <<"0", "1", "2", "3", "4", "5", "6", "7", "8", "9">>

IsDigit(c) == \E d \in 1..Len(Digits) : Digits[d] = c

DigitValue(c) == (CHOOSE d \in 1..Len(Digits) : Digits[d] = c) - 1

\* the value of the longest prefix of s made of digits, after acc
RECURSIVE DigitsValue(_, _)
DigitsValue(s, acc) ==
    IF s = <<>> \/ ~IsDigit(Head(s)) THEN acc
    ELSE DigitsValue(Tail(s), RADIX * acc + DigitValue(Head(s)))

RECURSIVE TrimStart(_)
TrimStart(s) == IF s # <<>> /\ Head(s) = " " THEN TrimStart(Tail(s)) ELSE s

\* parseInt(text): leading blanks, a sign, then the decimal digits up to the
\* first other character; NaN when there is no digit
parseInt(text) ==
    LET t == TrimStart(text)
        signed == t # <<>> /\ Head(t) \in {"-", "+"}
        body == IF signed THEN Tail(t) ELSE t
    IN IF body = <<>> \/ ~IsDigit(Head(body)) THEN NaN
       ELSE IF signed /\ Head(t) = "-" THEN Num(0 - DigitsValue(body, 0))
       ELSE Num(DigitsValue(body, 0))

\* a query field: missing (undefined), or the text given
Missing == [given |-> FALSE, text |-> NoText]

Given(text) == [given |-> TRUE, text |-> text]

\* const { page = 1, limit = 10 } = req.query, then parseInt
PageOf(q) == IF q.page.given THEN parseInt(q.page.text) ELSE Num(PAGE_DEFAULT)

LimitOf(q) == IF q.limit.given THEN parseInt(q.limit.text) ELSE Num(LIMIT_DEFAULT)

\* the summaries Object.keys(dbData.sessions).map(...) builds
Summaries(ss) ==
    [i \in 1..Len(ss) |->
        [id |-> ss[i].id,
         customerName |-> ss[i].customerName,
         status |-> ss[i].status,
         photoCount |-> Len(ss[i].photos),
         createdAt |-> ss[i].createdAt]]

\* if (status && status !== 'all') filter(s => s.status === status)
FilterStatus(list, status) ==
    IF status # "" /\ status # "all"
    THEN SelectSeq(list, LAMBDA e : e.status = status)
    ELSE list

\* if (search) filter on the lower-cased id or customer name
FilterSearch(list, search) ==
    IF search # NoText
    THEN LET lowerCaseSearch == toLowerCase(search)
         IN SelectSeq(list, LAMBDA e :
                \/ includes(toLowerCase(e.id), lowerCaseSearch)
                \/ includes(toLowerCase(e.customerName), lowerCaseSearch))
    ELSE list

\* e goes behind every entry that is not older than it
InsertByCreatedAt(sorted, e) ==
    LET k == Cardinality({i \in 1..Len(sorted) : sorted[i].createdAt >= e.createdAt})
    IN SubSeq(sorted, 1, k) \o <<e>> \o SubSeq(sorted, k + 1, Len(sorted))

\* sort((a, b) => new Date(b.createdAt) - new Date(a.createdAt)): newest
\* first, entries of equal createdAt in the order they had (the sort is stable)
RECURSIVE SortByCreatedAtDesc(_)
SortByCreatedAtDesc(list) ==
    IF list = <<>> THEN <<>>
    ELSE InsertByCreatedAt(SortByCreatedAtDesc(SubSeq(list, 1, Len(list) - 1)),
                           list[Len(list)])

\* an argument of Array.prototype.slice as an index into an array of len
\* entries: NaN counts as 0, a negative number counts from the end
SliceIndex(x, len) ==
    IF x.nan THEN 0
    ELSE IF x.n < 0 THEN (IF len + x.n < 0 THEN 0 ELSE len + x.n)
    ELSE IF x.n > len THEN len ELSE x.n

\* Array.prototype.slice(start, end)
slice(list, start, end) ==
    SubSeq(list, SliceIndex(start, Len(list)) + 1, SliceIndex(end, Len(list)))

\* ListSessions with a slip: the end index is the limit, not start + limit
ListSessions_EndIsLimit(ss, q) ==
    LET filteredSessions ==
            SortByCreatedAtDesc(
                FilterSearch(FilterStatus(Summaries(ss), q.status), q.search))
        startIndex == Mul(Sub(PageOf(q), Num(1)), LimitOf(q))
        endIndex == LimitOf(q)
    IN [sessions |-> slice(filteredSessions, startIndex, endIndex),
        total |-> Len(filteredSessions),
        page |-> PageOf(q),
        limit |-> LimitOf(q)]

\* the body GET /sessions answers with
ListSessions(ss, q) ==
    LET filteredSessions ==
            SortByCreatedAtDesc(
                FilterSearch(FilterStatus(Summaries(ss), q.status), q.search))
        startIndex == Mul(Sub(PageOf(q), Num(1)), LimitOf(q))
        endIndex == Add(startIndex, LimitOf(q))
    IN [sessions |-> slice(filteredSessions, startIndex, endIndex),
        total |-> Len(filteredSessions),
        page |-> PageOf(q),
        limit |-> LimitOf(q)]

Query(status, search, page, limit) ==
    [status |-> status, search |-> search, page |-> page, limit |-> limit]

\* the queries sent to GET /sessions: with and without each field
Queries ==
    { Query("", NoText, Missing, Missing),
      Query("draft", <<"p">>, Given(<<"1">>), Given(<<"1">>)),
      Query("all", <<"a">>, Given(<<"2">>), Given(<<"x">>)) }

\* the handler answers at once, with the query it was sent and the body it
\* built on record
GetSessions(q) ==
    /\ ev' = [op |-> "getSessions", code |-> 200,
              query |-> q, body |-> ListSessions(sessions, q)]
    /\ UNCHANGED <<sessions, files, disk, now, uuid, fileSeq, reqs, boot, portfolio, qrcodes>>

\* ------------------------------------------------------------------ GET /photos
\* the x-client-type header values a request may carry ("" is no header)
Roles == {"photographer", "Photographer", "client", ""}

\* ListPhotosCode with a slip: any x-client-type header passes for the
\* photographer's
ListPhotosCode_AnyHeader(ss, sid, role) ==
    LET isPhotographer == role # "" IN
    IF sid = NoText \/ ~Has(ss, sid) THEN 404
    ELSE IF Get(ss, sid).status = "draft" /\ ~isPhotographer THEN 403
    ELSE 200

ListPhotosCode(ss, sid, role) ==
    LET isPhotographer == role = "photographer" IN
    IF sid = NoText \/ ~Has(ss, sid) THEN 404
    ELSE IF Get(ss, sid).status = "draft" /\ ~isPhotographer THEN 403
    ELSE 200

\* photosForClient: the filename is not part of what a client is sent
photosForClient(session) ==
    [i \in 1..Len(session.photos) |->
        [id |-> session.photos[i].id,
         url |-> session.photos[i].url,
         selected |-> session.photos[i].selected]]

ListPhotos(sid, role) ==
    /\ ev' = Event("listPhotos", ListPhotosCode(sessions, sid, role))
    /\ UNCHANGED <<sessions, files, disk, now, uuid, fileSeq, reqs, boot, portfolio, qrcodes>>

\* ------------------------------------------------------------------ POST /submitSelection
\* selectedPhotoIds as sent: an array of ids (its order and repetitions do
\* not matter to includes()), or something that is no array
Selection(isArray, ids) == [isArray |-> isArray, ids |-> ids]

SubmitSelectionCode(ss, sid, sel) ==
    IF sid = NoText \/ ~Has(ss, sid) THEN 404
    ELSE IF ~sel.isArray THEN 400
    ELSE 200

\* SelectPhotos with a slip: the photos sent are selected, the others keep
\* their flag
SelectPhotos_OnlyAdds(photos, ids) ==
    [i \in 1..Len(photos) |->
        [photos[i] EXCEPT !.selected = (@ \/ photos[i].id \in ids)]]

\* SelectPhotos with a slip: the photos sent have their flag toggled
SelectPhotos_Toggles(photos, ids) ==
    [i \in 1..Len(photos) |->
        [photos[i] EXCEPT !.selected = (@ # (photos[i].id \in ids))]]

\* photos.forEach(photo => photo.selected = selectedPhotoIds.includes(photo.id))
SelectPhotos(photos, ids) ==
    [i \in 1..Len(photos) |->
        [photos[i] EXCEPT !.selected = (photos[i].id \in ids)]]

SubmitSelectionSessions(ss, sid, sel) ==
    SetKey(ss, sid,
           [Get(ss, sid) EXCEPT !.photos = SelectPhotos(@, sel.ids),
                                !.status = "submitted"])

SubmitSelection(sid, sel) ==
    LET code == SubmitSelectionCode(sessions, sid, sel) IN
    /\ ev' = Event("submitSelection", code)
    /\ IF code = 200
       THEN /\ CanSave
            /\ sessions' = SubmitSelectionSessions(sessions, sid, sel)
            /\ reqs' = Suspend(reqs, Saving(sessions'))
       ELSE UNCHANGED <<sessions, reqs>>
    /\ UNCHANGED <<files, disk, now, uuid, fileSeq, boot, portfolio, qrcodes>>

\* the selections a client may send for session sid of ss: any set of its
\* photo ids, all of them with one more id that names no photo, or no array
\* at all
SelectionsFor(ss, sid) ==
    IF Has(ss, sid)
    THEN {Selection(TRUE, ids) : ids \in SUBSET PhotoIds(Get(ss, sid))}
         \cup {Selection(TRUE, PhotoIds(Get(ss, sid)) \cup {PriorId}),
               Selection(FALSE, {})}
    ELSE {Selection(TRUE, {}), Selection(FALSE, {})}

\* ------------------------------------------------------------------ saveData completes
\* what db.json may hold after fs.writeFile(DB_FILE, text) settled: the text,
\* or, when the write failed, what it held before (the file could not be
\* opened) or a truncated file (writeFile opens with flag 'w', which empties
\* the file, and failed after that)
WriteOutcomes(doc, r, ok) ==
    IF ok THEN {DocumentOf("ok", r.snap, r.items)}
    ELSE {doc, Unreadable("truncated")}

\* fs.writeFile settles: db.json holds the text stringified when saveData was
\* called, or the write failed and is only logged; the handler then answers
SaveDone(r, ok) ==
    /\ r \in InFlight
    /\ r.pc = "saving"
    /\ disk' \in WriteOutcomes(disk, r, ok)
    /\ reqs' = Resume(reqs, r)
    /\ ev' = Event("respond", 200)
    /\ UNCHANGED <<sessions, files, now, uuid, fileSeq, boot, portfolio, qrcodes>>

\* no write of db.json is pending
Settled == Writes = {}

\* The server in an environment without I/O errors whose file system settles
\* a write of db.json before the next request is served or the next unlink
\* settles. No handler reads db.json once the server listens, so the timing
\* and the outcome of the writes decide nothing about dbData.sessions or the
\* upload directory.
Next ==
    \/ Settled /\ UploadNoFile
    \/ Settled /\ \E sidIn \in FieldIds, nameIn \in CustomerNames :
          Upload(sidIn, nameIn)
    \/ Settled /\ \E sid \in PathIds :
          \E photoId \in (IF Has(sessions, sid) THEN PhotoIds(Get(sessions, sid)) ELSE {})
                          \cup {PriorId} :
              RemovePhoto(sid, photoId)
    \/ Settled /\ \E r \in InFlight : RemovePhotoUnlinked(r, FALSE)
    \/ Settled /\ \E sid \in PathIds : DeleteSession(sid)
    \/ Settled /\ \E r \in InFlight : \E filename \in r.pending :
          DeleteSessionUnlinked(r, filename, FALSE)
    \/ Settled /\ \E sid \in FieldIds : FinishSession(sid)
    \/ Settled /\ \E q \in Queries : GetSessions(q)
    \/ Settled /\ \E sid \in FieldIds, role \in Roles : ListPhotos(sid, role)
    \/ Settled /\ \E sid \in FieldIds : \E sel \in SelectionsFor(sessions, sid) :
          SubmitSelection(sid, sel)
    \/ \E r \in InFlight : SaveDone(r, TRUE)

Spec == Init /\ [][Next]_vars

\* ------------------------------------------------------------------ the server on a slow file system
\* the session db.json holds at start-up: two photos, stored by an earlier run
LoadedSession ==
    [id |-> PriorId,
     customerName |-> UNKNOWN_CUSTOMER,
     photos |-> << NewPhoto(<<"q", "1">>, <<"g", "1">>),
                   NewPhoto(<<"q", "2">>, <<"g", "2">>) >>,
     status |-> "draft",
     createdAt |-> 0]

\* loadData() found the session; the file of a photo, or of both, is missing
\* from the upload directory
InitIO ==
    /\ sessions = <<LoadedSession>>
    /\ disk = DocumentOf("ok", sessions, NoItems)
    /\ boot = sessions
    /\ files \in {{}, {<<"g", "1">>}, {<<"g", "2">>}}
    /\ now = 0
    /\ uuid = 0
    /\ fileSeq = 0
    /\ reqs = EmptyBag
    /\ portfolio = NoItems
    /\ qrcodes = {}
    /\ ev = Event("listen", 0)

\* The handlers that store and delete photos, over the loaded session with
\* its missing file; a write of db.json settles before the next step.
NextDelete ==
    \/ Settled /\ \E sidIn \in FieldIds, nameIn \in CustomerNames :
          Upload(sidIn, nameIn)
    \/ Settled /\ \E sid \in PathIds :
          \E photoId \in (IF Has(sessions, sid) THEN PhotoIds(Get(sessions, sid)) ELSE {})
                          \cup {PriorId} :
              RemovePhoto(sid, photoId)
    \/ Settled /\ \E r \in InFlight : RemovePhotoUnlinked(r, FALSE)
    \/ Settled /\ \E sid \in PathIds : DeleteSession(sid)
    \/ Settled /\ \E r \in InFlight : \E filename \in r.pending :
          DeleteSessionUnlinked(r, filename, FALSE)
    \/ \E r \in InFlight : SaveDone(r, TRUE)

SpecMissing == InitIO /\ [][NextDelete]_vars

\* the selections sent on the slow file system: no photo, or every photo
BulkSelections(ss, sid) ==
    IF Has(ss, sid)
    THEN {Selection(TRUE, {}), Selection(TRUE, PhotoIds(Get(ss, sid)))}
    ELSE {Selection(TRUE, {})}

\* The mutating handlers with writes of db.json that settle at any later
\* time, in any order, while other requests are served; every write succeeds.
NextSlow ==
    \/ \E sidIn \in FieldIds : Upload(sidIn, NoText)
    \/ \E sid \in PathIds :
          \E photoId \in (IF Has(sessions, sid) THEN PhotoIds(Get(sessions, sid)) ELSE {}) :
              RemovePhoto(sid, photoId)
    \/ \E r \in InFlight : RemovePhotoUnlinked(r, FALSE)
    \/ \E sid \in PathIds : DeleteSession(sid)
    \/ \E r \in InFlight : \E filename \in r.pending :
          DeleteSessionUnlinked(r, filename, FALSE)
    \/ \E sid \in PathIds : FinishSession(sid)
    \/ \E sid \in PathIds : \E sel \in BulkSelections(sessions, sid) :
          SubmitSelection(sid, sel)
    \/ \E r \in InFlight : SaveDone(r, TRUE)

SpecSlow == Init /\ [][NextSlow]_vars

\* The same server on a file system whose writes of db.json may fail.
NextIO ==
    \/ NextSlow
    \/ \E r \in InFlight : SaveDone(r, FALSE)

SpecIO == Init /\ [][NextIO]_vars

\* ------------------------------------------------------------------ the server with customers that give names
\* the customer names an upload may carry: none, and two that differ
GivenNames == CustomerNames \cup {<<"B">>}

\* The handlers that change dbData.sessions, with uploads that carry any of
\* GivenNames, on a file system without I/O errors that settles a write of
\* db.json before the next request is served.
NextNames ==
    \/ Settled /\ \E sidIn \in FieldIds, nameIn \in GivenNames :
          Upload(sidIn, nameIn)
    \/ Settled /\ \E sid \in PathIds :
          \E photoId \in (IF Has(sessions, sid) THEN PhotoIds(Get(sessions, sid)) ELSE {}) :
              RemovePhoto(sid, photoId)
    \/ Settled /\ \E r \in InFlight : RemovePhotoUnlinked(r, FALSE)
    \/ Settled /\ \E sid \in PathIds : DeleteSession(sid)
    \/ Settled /\ \E r \in InFlight : \E filename \in r.pending :
          DeleteSessionUnlinked(r, filename, FALSE)
    \/ Settled /\ \E sid \in PathIds : FinishSession(sid)
    \/ Settled /\ \E sid \in PathIds : \E sel \in BulkSelections(sessions, sid) :
          SubmitSelection(sid, sel)
    \/ \E r \in InFlight : SaveDone(r, TRUE)

SpecNames == Init /\ [][NextNames]_vars

\* ------------------------------------------------------------------ POST /portfolio/upload
\* the title every uploaded item gets
DEFAULT_TITLE == <<"t">>

\* the category of an item uploaded without one
UNCATEGORIZED == <<"n">>

\* categories a request may carry (NoText: the field is missing or empty)
Categories == {NoText, <<"c">>}

\* `${BASE_URL}/portfolio_uploads/${file.filename}`
PortfolioUrl(filename) == <<"/", "p">> \o filename

\* the item pushed for one file, at clock reading t
NewItem(itemId, category, filename, t) ==
    [id |-> itemId,
     title |-> DEFAULT_TITLE,
     description |-> NoText,
     category |-> IF category = NoText THEN UNCATEGORIZED ELSE category,
     url |-> PortfolioUrl(filename),
     filename |-> filename,
     createdAt |-> t]

\* the loop over req.files: one item pushed for each of the n files, with
\* the next values of uuidv4() and the names multer gave the files
PushItems(items, category, n, t) ==
    items \o [i \in 1..n |->
                NewItem(uuidv4(uuid + i), category, MulterFilename(fileSeq + i), t)]

UploadPortfolioNoFiles ==
    /\ ev' = Event("uploadPortfolio", 400)
    /\ UNCHANGED <<sessions, files, disk, now, uuid, fileSeq, reqs, boot, portfolio, qrcodes>>

\* multer has stored the n files in PORTFOLIO_DIR; the handler runs up to
\* `await saveData()`
UploadPortfolio(category, n) ==
    /\ CanSave
    /\ uuid + n <= MaxUuid
    /\ \E t \in ClockReadings :
          /\ now' = t
          /\ portfolio' = PushItems(portfolio, category, n, t)
    /\ uuid' = uuid + n
    /\ fileSeq' = fileSeq + n
    /\ reqs' = Suspend(reqs, [Saving(sessions) EXCEPT !.items = portfolio'])
    /\ ev' = Event("uploadPortfolio", 200)
    /\ UNCHANGED <<sessions, files, disk, boot, qrcodes>>

\* ------------------------------------------------------------------ GET /portfolio
\* the category that asks for every item
ALL_CATEGORIES == <<"all">>

\* the categories a query may carry: none, "all", one that items have and
\* one that no item has
QueryCategories == Categories \cup {ALL_CATEGORIES, <<"d">>}

\* category && category !== 'all'
Filters(category) == category # NoText /\ category # ALL_CATEGORIES

\* filteredItems.filter(item => item.category === category): a new array
FilterCategory(items, category) ==
    SelectSeq(items, LAMBDA item : item.category = category)

\* the array the handler sorts and answers with
FilteredItems(items, category) ==
    IF Filters(category) THEN FilterCategory(items, category) ELSE items

\* dbData.portfolioItems after the handler: Array.prototype.sort sorts in
\* place, and without a filter filteredItems is dbData.portfolioItems itself
GetPortfolioItems(items, category) ==
    IF Filters(category) THEN items
    ELSE SortByCreatedAtDesc(FilteredItems(items, category))

GetPortfolio(category) ==
    /\ ev' = [op |-> "getPortfolio", code |-> 200,
              body |-> SortByCreatedAtDesc(FilteredItems(portfolio, category))]
    /\ portfolio' = GetPortfolioItems(portfolio, category)
    /\ UNCHANGED <<sessions, files, disk, now, uuid, fileSeq, reqs, boot, qrcodes>>

\* ------------------------------------------------------------------ POST /generateQRCode
\* the pages a request may carry (NoText: the field is missing or empty)
Pages == {NoText, <<"s">>}

\* the status answered: 400 without sessionId or page, 400 for a session
\* that is not there or has no photos, 500 when qrcode.toFile fails
GenerateQRCodeCode(ss, sid, page, ok) ==
    IF sid = NoText \/ page = NoText THEN 400
    ELSE IF ~Has(ss, sid) \/ Len(Get(ss, sid).photos) = 0 THEN 400
    ELSE IF ok THEN 200
    ELSE 500

\* the handler with the outcome of qrcode.toFile: nothing of dbData is read
\* or written after the await
GenerateQRCode(sid, page, ok) ==
    LET code == GenerateQRCodeCode(sessions, sid, page, ok) IN
    /\ ev' = Event("generateQRCode", code)
    /\ qrcodes' = IF code = 200 THEN qrcodes \cup {sid} ELSE qrcodes
    /\ UNCHANGED <<sessions, files, disk, now, uuid, fileSeq, reqs, boot, portfolio>>

\* ------------------------------------------------------------------ start-up from db.json
\* loadData() suspended on fs.readFile
Reading ==
    [pc |-> "reading", sid |-> NoText, pending |-> {}, snap |-> EmptySessions,
     items |-> NoItems]

\* the saveData() of loadData, suspended on fs.writeFile
Creating(ss, items) ==
    [pc |-> "creating", sid |-> NoText, pending |-> {}, snap |-> ss,
     items |-> items]

\* { sessions: {}, portfolioItems: [] }
DefaultData == [sessions |-> EmptySessions, portfolioItems |-> NoItems]

\* loadData with a slip: the default is saved after any failure
loadData_SavesOnAnyError(doc) ==
    CASE doc.state = "ok" -> [dbData |-> Parsed(doc.text), saves |-> FALSE]
      [] OTHER -> [dbData |-> DefaultData, saves |-> TRUE]

\* loadData() up to its end or to the await of its saveData(): what dbData
\* is assigned, and whether saveData() is called. readFile fails with ENOENT
\* when db.json is missing; JSON.parse throws on a file that is truncated.
loadData(doc) ==
    CASE doc.state = "ok" -> [dbData |-> Parsed(doc.text), saves |-> FALSE]
      [] doc.state = "missing" -> [dbData |-> DefaultData, saves |-> TRUE]
      [] OTHER -> [dbData |-> DefaultData, saves |-> FALSE]

\* fs.readFile settles; app.listen is called when loadData has returned
LoadData ==
    /\ Reading \in InFlight
    /\ LET loaded == loadData(disk)
       IN /\ sessions' = loaded.dbData.sessions
          /\ portfolio' = loaded.dbData.portfolioItems
          /\ reqs' = IF loaded.saves
                     THEN SetToBag({Creating(sessions', portfolio')})
                     ELSE EmptyBag
          /\ ev' = IF loaded.saves THEN Event("loadData", 0)
                                   ELSE Event("listen", 0)
    /\ boot' = sessions'
    /\ UNCHANGED <<files, disk, now, uuid, fileSeq, qrcodes>>

\* the write of the new db.json settles and loadData returns
Created(r, ok) ==
    /\ r \in InFlight
    /\ r.pc = "creating"
    /\ disk' \in WriteOutcomes(disk, r, ok)
    /\ reqs' = Resume(reqs, r)
    /\ ev' = Event("listen", 0)
    /\ UNCHANGED <<sessions, files, now, uuid, fileSeq, boot, portfolio, qrcodes>>

\* the process is stopped while no handler is in flight and started again:
\* dbData is the initial object of the module and loadData() is called
Restart ==
    /\ reqs = EmptyBag
    /\ sessions' = EmptySessions
    /\ portfolio' = NoItems
    /\ reqs' = SetToBag({Reading})
    /\ ev' = Event("start", 0)
    /\ UNCHANGED <<files, disk, now, uuid, fileSeq, boot, qrcodes>>

\* db.json as the process may find it: missing, truncated, written by
\* saveData, or written before portfolioItems was part of the document
BootDocs ==
    {Unreadable("missing"), Unreadable("truncated")}
    \cup {DocumentOf("ok", ss, NoItems) : ss \in LoadableDocs}
    \cup {[state |-> "ok",
           text |-> JObject(<<Member("sessions", StringifySessions(ss))>>)] :
            ss \in LoadableDocs}

\* the process has just been started
InitBoot ==
    /\ sessions = EmptySessions
    /\ portfolio = NoItems
    /\ qrcodes = {}
    /\ disk \in BootDocs
    /\ boot = EmptySessions
    /\ files = {}
    /\ now = 0
    /\ uuid = 0
    /\ fileSeq = 0
    /\ reqs = SetToBag({Reading})
    /\ ev = Event("start", 0)

\* the numbers of files one portfolio upload may carry
FileCounts == 1..2

\* The server from the start of the process on, stopped and started again
\* at any time it is idle, on a file system whose writes succeed and settle
\* before the next request is served.
\* app.listen has been called (loadData has returned) and no write of
\* db.json is pending
Listening == \A r \in InFlight : r.pc \notin {"reading", "creating", "saving"}

NextBoot ==
    \/ LoadData
    \/ \E r \in InFlight : Created(r, TRUE)
    \/ Listening /\ \E sidIn \in FieldIds, nameIn \in CustomerNames :
                       Upload(sidIn, nameIn)
    \/ Listening /\ \E sid \in PathIds : \E sel \in SelectionsFor(sessions, sid) :
                       SubmitSelection(sid, sel)
    \/ Listening /\ UploadPortfolioNoFiles
    \/ Listening /\ \E category \in Categories, n \in FileCounts :
                       UploadPortfolio(category, n)
    \/ \E r \in InFlight : SaveDone(r, TRUE)
    \/ Restart

SpecBoot == InitBoot /\ [][NextBoot]_vars

\* ------------------------------------------------------------------ the server answering reads
\* The handlers that read the repository, between uploads of photos and of
\* portfolio items, on a file system whose writes succeed and settle
\* before the next request is served.
NextRead ==
    \/ Settled /\ \E sidIn \in FieldIds : Upload(sidIn, NoText)
    \/ Settled /\ \E category \in Categories, n \in FileCounts :
          UploadPortfolio(category, n)
    \/ Settled /\ \E q \in Queries : GetSessions(q)
    \/ Settled /\ \E sid \in FieldIds, role \in Roles : ListPhotos(sid, role)
    \/ Settled /\ \E category \in QueryCategories : GetPortfolio(category)
    \/ Settled /\ \E sid \in FieldIds, page \in Pages, ok \in BOOLEAN :
          GenerateQRCode(sid, page, ok)
    \/ \E r \in InFlight : SaveDone(r, TRUE)

SpecRead == Init /\ [][NextRead]_vars

\* ------------------------------------------------------------------ the server listing a loaded repository
\* the decimal numeral a client writes for the integer n in a query string
RECURSIVE DecimalNat(_)
DecimalNat(n) ==
    IF n < RADIX THEN <<Digits[n + 1]>>
    ELSE DecimalNat(n \div RADIX) \o <<Digits[(n % RADIX) + 1]>>

Decimal(n) == IF n < 0 THEN <<"-">> \o DecimalNat(0 - n) ELSE DecimalNat(n)

\* the i-th session of a db.json written by earlier runs: the statuses and
\* the customer names vary, the creation times are neither in the order of
\* the keys nor all different
ListedSession(i) ==
    [id |-> <<"s">> \o DecimalNat(i),
     customerName |-> IF i % 2 = 0 THEN UNKNOWN_CUSTOMER ELSE <<"A", "b">>,
     photos |-> <<NewPhoto(<<"q">> \o DecimalNat(i), <<"g">> \o DecimalNat(i))>>,
     status |-> <<"draft", "ready", "submitted">>[(i % 3) + 1],
     createdAt |-> (i * 7) % 5]

\* dbData.sessions after loadData() read a db.json of n sessions
Repo(n) == [i \in 1..n |-> ListedSession(i)]

\* the pages and limits a client asks for by number
PageNumbers == (0 - 2)..3

LimitNumbers == {0, 1, 2, LIMIT_DEFAULT}

\* texts that are no integer
NotNumerals == {NoText, <<"x">>}

\* the queries sent to the server that lists: with and without a status
\* filter and a search text, page and limit missing, numeric or no number
PagedQueries ==
    { Query(status, search, page, limit) :
        status \in {"", "draft"},
        search \in {NoText, <<"1">>},
        page \in {Missing} \cup {Given(Decimal(n)) : n \in PageNumbers}
                 \cup {Given(t) : t \in NotNumerals},
        limit \in {Missing} \cup {Given(Decimal(n)) : n \in LimitNumbers}
                  \cup {Given(t) : t \in NotNumerals} }

\* loadData() found a db.json of up to MaxListed sessions, with their files
InitList ==
    /\ sessions \in {Repo(n) : n \in 0..MaxListed}
    /\ disk = DocumentOf("ok", sessions, NoItems)
    /\ boot = sessions
    /\ files = UNION {Filenames(sessions[i]) : i \in 1..Len(sessions)}
    /\ now = 0
    /\ uuid = 0
    /\ fileSeq = 0
    /\ reqs = EmptyBag
    /\ portfolio = NoItems
    /\ qrcodes = {}
    /\ ev = Event("listen", 0)

NextList == \E q \in PagedQueries : GetSessions(q)

\* the server answering list-sessions requests over a loaded repository
SpecList == InitList /\ [][NextList]_vars

\* ------------------------------------------------------------------ the status state machine
StatusOf(ss, sid) == Get(ss, sid).status

\* the sessions a step keeps in the repository
Kept == Keys(sessions) \cap Keys(sessions')

\* C1: over every step, a session that stays in the repository does not
\* return to draft once it has left draft, and a submitted session stays
\* submitted, whatever the operation (finishSession, upload, delete photo,
\* submitSelection again).
C1_SubmittedIsFinal ==
    [][\A sid \in Kept :
          /\ StatusOf(sessions, sid) # "draft" => StatusOf(sessions', sid) # "draft"
          /\ StatusOf(sessions, sid) = "submitted"
                => StatusOf(sessions', sid) = "submitted"]_vars

\* C2: a session becomes submitted only by a submitSelection step, and only
\* from ready: no step takes a session from draft to submitted.
C2_SubmittedOnlyFromReady ==
    [][\A sid \in Kept :
          (StatusOf(sessions', sid) = "submitted" /\ StatusOf(sessions, sid) # "submitted")
             => /\ ev'.op = "submitSelection"
                /\ StatusOf(sessions, sid) = "ready"]_vars

\* C3: finishSession on an existing session without photos answers 400 and
\* leaves the repository as it is; on an existing draft session with at least
\* one photo it answers 200 and the session is ready afterwards.
C3_FinishSession ==
    [][ev'.op = "finishSession" => \A sid \in Keys(sessions) :
          FinishSession(sid) =>
             /\ Len(Get(sessions, sid).photos) = 0
                   => ev'.code = 400 /\ sessions' = sessions
             /\ (Len(Get(sessions, sid).photos) >= 1 /\ StatusOf(sessions, sid) = "draft")
                   => /\ ev'.code = 200
                      /\ Has(sessions', sid)
                      /\ StatusOf(sessions', sid) = "ready"]_vars

\* a finishSession was just refused for want of photos, next to a session that
\* an earlier finishSession made ready
C3_Witness ==
    /\ ev = Event("finishSession", 400)
    /\ \E i \in 1..Len(sessions) : Len(sessions[i].photos) = 0
    /\ \E i \in 1..Len(sessions) :
          sessions[i].status = "ready" /\ Len(sessions[i].photos) >= 1

ListQueries ==
    { Query(status, search, page, limit) :
        status \in {"", "all", "draft", "submitted"},
        search \in {NoText, <<"p">>, <<"u">>},
        page \in {Missing, Given(<<"1">>), Given(<<"2">>), Given(<<"-", "1">>),
                  Given(<<"x">>)},
        limit \in {Missing, Given(<<"1">>), Given(<<"x">>)} }

\* the ids of the sessions a list-sessions call with query q returns
Listed(ss, q) ==
    LET page == ListSessions(ss, q).sessions
    IN {page[i].id : i \in 1..Len(page)}

\* C5: deleting the only photo of a session removes the session: its id is
\* not in the repository afterwards and no list-sessions call returns it.
C5_LastPhotoRemovesSession ==
    [][ev'.op = "removePhoto" =>
       \A sid \in Keys(sessions) : \A photoId \in PhotoIds(Get(sessions, sid)) :
          (/\ Len(Get(sessions, sid).photos) = 1
           /\ RemovePhoto(sid, photoId)) =>
             /\ ev'.code = 200
             /\ ~Has(sessions', sid)
             /\ \A q \in ListQueries : sid \notin Listed(sessions', q)]_vars

\* the only photo of the only session has just been deleted and the
\* repository holds no session
C5_Witness ==
    /\ ev = Event("removePhoto", 200)
    /\ fileSeq = 1
    /\ Keys(sessions) = {}
    /\ \E r \in Unlinks : r.pc = "unlinkPhoto"

\* C6: when the server started with no session, every session in the
\* repository has at least one photo, in every state a request can observe,
\* those in which handlers are suspended on file I/O included.
C6_NoEmptySession ==
    boot = EmptySessions =>
        \A i \in 1..Len(sessions) : Len(sessions[i].photos) >= 1

\* a delete-photo handler is suspended on its unlink while the session it
\* took a photo from is still held
C6_Witness ==
    /\ boot = EmptySessions
    /\ \E r \in Unlinks : r.pc = "unlinkPhoto"
    /\ sessions # <<>>

\* C7: listPhotos on an existing session answers 403 exactly when the session
\* is draft and the header is not "photographer", and 200 otherwise.
C7_ListPhotosForbidden ==
    [][ev'.op = "listPhotos" => \A sid \in Keys(sessions), role \in Roles :
          ListPhotos(sid, role) =>
             /\ ev'.code = 403
                   <=> (StatusOf(sessions, sid) = "draft" /\ role # "photographer")
             /\ ev'.code \in {200, 403}]_vars

\* a client has just been refused the photos of a draft session
C7_Witness ==
    /\ ev = Event("listPhotos", 403)
    /\ \E i \in 1..Len(sessions) :
          sessions[i].status = "draft" /\ Len(sessions[i].photos) >= 1

\* C8: after a submitSelection that is accepted, every photo of the session
\* is selected exactly if its id is among the ids sent, whatever it was before.
C8_SelectionOverwritten ==
    [][ev'.op = "submitSelection" =>
       \A sid \in Keys(sessions) : \A sel \in SelectionsFor(sessions, sid) :
          (/\ sel.isArray
           /\ SubmitSelection(sid, sel)) =>
             /\ ev'.code = 200
             /\ Has(sessions', sid)
             /\ Len(Get(sessions', sid).photos) = Len(Get(sessions, sid).photos)
             /\ \A i \in 1..Len(Get(sessions', sid).photos) :
                   /\ Get(sessions', sid).photos[i].id = Get(sessions, sid).photos[i].id
                   /\ Get(sessions', sid).photos[i].selected
                         = (Get(sessions, sid).photos[i].id \in sel.ids)]_vars

\* a photo that db.json holds as selected, from an earlier submission, is not
\* selected after the submission just made
C8_Witness ==
    /\ ev = Event("submitSelection", 200)
    /\ disk.state = "ok"
    /\ \E sid \in Keys(sessions) \cap Keys(Parsed(disk.text).sessions) :
          /\ StatusOf(Parsed(disk.text).sessions, sid) = "submitted"
          /\ StatusOf(sessions, sid) = "submitted"
          /\ \E i \in 1..Len(Get(sessions, sid).photos) :
                /\ i <= Len(Get(Parsed(disk.text).sessions, sid).photos)
                /\ Get(Parsed(disk.text).sessions, sid).photos[i].id
                      = Get(sessions, sid).photos[i].id
                /\ Get(Parsed(disk.text).sessions, sid).photos[i].selected
                /\ ~Get(sessions, sid).photos[i].selected

\* C9: submitting the same ids twice in a row leaves the repository as
\* submitting them once does.
C9_SubmitIdempotent ==
    \A sid \in Keys(sessions) : \A sel \in SelectionsFor(sessions, sid) :
        sel.isArray =>
            SubmitSelectionSessions(SubmitSelectionSessions(sessions, sid, sel), sid, sel)
                = SubmitSelectionSessions(sessions, sid, sel)

\* a submission has just been made that changed nothing of what the
\* submission before it had left (and db.json holds): a photo is selected
C9_Witness ==
    /\ ev = Event("submitSelection", 200)
    /\ disk = Document("ok", sessions)
    /\ \E i \in 1..Len(sessions) :
          /\ sessions[i].status = "submitted"
          /\ \E j \in 1..Len(sessions[i].photos) : sessions[i].photos[j].selected

\* C10: an upload into a session that exists leaves its status, its createdAt
\* and its photos as they were and puts the new photo, not selected, behind
\* them.
C10_UploadAppends ==
    [][ev'.op = "upload" => \A sidIn \in Keys(sessions), nameIn \in CustomerNames :
          Upload(sidIn, nameIn) =>
             LET old == Get(sessions, sidIn)
                 new == Get(sessions', sidIn)
             IN /\ Has(sessions', sidIn)
                /\ new.status = old.status
                /\ new.createdAt = old.createdAt
                /\ Len(new.photos) = Len(old.photos) + 1
                /\ SubSeq(new.photos, 1, Len(old.photos)) = old.photos
                /\ new.photos[Len(new.photos)].id = uuidv4(uuid + 1)
                /\ new.photos[Len(new.photos)].selected = FALSE]_vars

\* a photo has just been uploaded into a submitted session, behind a photo
\* that is selected
C10_Witness ==
    /\ ev = Event("upload", 200)
    /\ \E i \in 1..Len(sessions) :
          /\ sessions[i].status = "submitted"
          /\ Len(sessions[i].photos) = 2
          /\ sessions[i].photos[1].selected
          /\ ~sessions[i].photos[2].selected
          /\ sessions[i].photos[2].id = uuidv4(uuid)

\* ------------------------------------------------------------------ list sessions: pages
\* the list-sessions request just answered asked for page p with limit l, as
\* decimal numerals
Asked(p, l) ==
    /\ ev'.query.page = Given(Decimal(p))
    /\ ev'.query.limit = Given(Decimal(l))

\* C11: a list-sessions request for a page below 1 (zero or negative) or
\* beyond the last page, with a limit of at least 1, is answered 200 with an
\* empty sessions slice.
C11_OutOfRangePageEmpty ==
    [][ev'.op = "getSessions" =>
         \A p \in PageNumbers, l \in LimitNumbers :
            (/\ Asked(p, l)
             /\ l >= 1
             /\ p < 1 \/ (p - 1) * l >= ev'.body.total)
               => ev'.code = 200 /\ ev'.body.sessions = <<>>]_vars

\* a query field that is missing or is no integer
Unusable(field) == ~field.given \/ field.text \in NotNumerals

\* the query q with page 1 and limit 10 written out where q has none
Defaulted(q) ==
    [q EXCEPT !.page = IF Unusable(@) THEN Given(Decimal(PAGE_DEFAULT)) ELSE @,
              !.limit = IF Unusable(@) THEN Given(Decimal(LIMIT_DEFAULT)) ELSE @]

\* C12: a list-sessions request whose page or limit is missing or is no
\* integer is answered as the request with page=1 and limit=10 in their
\* place is: the same sessions, total, page and limit.
C12_InvalidPageLimitDefault ==
    [][ev'.op = "getSessions" =>
         ((Unusable(ev'.query.page) \/ Unusable(ev'.query.limit))
            => ev'.body = ListSessions(sessions, Defaulted(ev'.query)))]_vars

\* the indices of the sessions of ss that pass the status filter and the
\* search text of q
Passing(ss, q) ==
    {i \in 1..Len(ss) :
        /\ q.status \in {"", "all"} \/ ss[i].status = q.status
        /\ \/ q.search = NoText
           \/ includes(toLowerCase(ss[i].id), toLowerCase(q.search))
           \/ includes(toLowerCase(ss[i].customerName), toLowerCase(q.search))}

\* the sessions that pass the filters of q, newest first
Ordered(ss, q) ==
    SortByCreatedAtDesc(FilterSearch(FilterStatus(Summaries(ss), q.status), q.search))

Min(a, b) == IF a < b THEN a ELSE b

\* C13: for a page p >= 1 and a limit l >= 1, list sessions answers with the
\* entries at positions (p-1)*l .. p*l-1 of the sessions that pass the
\* filters, which are ordered by createdAt descending, and total is the
\* number of sessions that pass the filters.
C13_PageIsSliceOfSorted ==
    [][ev'.op = "getSessions" =>
         \A p \in PageNumbers, l \in LimitNumbers :
            (Asked(p, l) /\ p >= 1 /\ l >= 1) =>
               LET all == Ordered(sessions, ev'.query)
                   n == Cardinality(Passing(sessions, ev'.query))
               IN /\ Len(all) = n
                  /\ {all[i].id : i \in 1..n}
                        = {sessions[i].id : i \in Passing(sessions, ev'.query)}
                  /\ \A i \in 1..(n - 1) : all[i].createdAt >= all[i + 1].createdAt
                  /\ ev'.body.total = n
                  /\ ev'.body.sessions = SubSeq(all, (p - 1) * l + 1, Min(p * l, n))
                  /\ ev'.body.page = Num(p)
                  /\ ev'.body.limit = Num(l)]_vars

\* page 2 with limit 10 of fifteen sessions has just been answered with the
\* five oldest, newest first
C13_Witness ==
    /\ ev.op = "getSessions"
    /\ Len(sessions) = 15
    /\ ev.query = Query("", NoText, Given(<<"2">>), Given(<<"1", "0">>))
    /\ Len(ev.body.sessions) = 5
    /\ ev.body.total = 15
    /\ \A i \in 1..5 : ev.body.sessions[i].createdAt <= 1
    /\ \A i \in 1..4 : ev.body.sessions[i].createdAt >= ev.body.sessions[i + 1].createdAt

\* ------------------------------------------------------------------ deleting a session whose files are missing
\* the handlers of rs that are deleting session sid and wait for unlinks
Deleting(rs, sid) == {r \in BagToSet(rs) : r.pc = "unlinkSession" /\ r.sid = sid}

\* C14: deleteSession on an existing session unlinks the file of every photo
\* of the session; an unlink that finds its file missing changes nothing and
\* stops neither the other unlinks nor the removal of the record, after which
\* the document is saved and the request answered 200.
C14_DeleteSessionIgnoresMissing ==
    [][/\ ev'.op = "deleteSession" =>
            \A sid \in Keys(sessions) :
               (DeleteSession(sid) /\ Get(sessions, sid).photos # <<>>) =>
                  /\ ev'.code = 200
                  /\ \E r \in Deleting(reqs', sid) :
                        r.pending = {Get(sessions, sid).photos[i].filename :
                                        i \in 1..Len(Get(sessions, sid).photos)}
       /\ ev'.op = "unlinked" =>
            \A sid \in Keys(sessions) : \A r \in Deleting(reqs, sid) :
               \A filename \in r.pending :
                  DeleteSessionUnlinked(r, filename, FALSE) =>
                     /\ files' = files \ {filename}
                     /\ IF r.pending = {filename}
                        THEN /\ ~Has(sessions', sid)
                             /\ Deleting(reqs', sid) = {}
                             /\ \E w \in BagToSet(reqs') :
                                   w.pc = "saving" /\ w.snap = sessions'
                        ELSE /\ sessions' = sessions
                             /\ \E r2 \in Deleting(reqs', sid) :
                                   r2.pending = r.pending \ {filename}
       /\ ev'.op = "respond" => ev'.code = 200]_vars

\* the session loaded with two photos, of which a file was missing, has
\* just been deleted: both unlinks have settled, the record is gone and the
\* save is under way
C14_Witness ==
    /\ ev = Event("unlinked", 0)
    /\ boot = <<LoadedSession>>
    /\ disk = Document("ok", boot)
    /\ uuid = 0
    /\ sessions = EmptySessions
    /\ files = {}
    /\ reqs = SetToBag({Saving(EmptySessions)})

\* ------------------------------------------------------------------ handlers in flight
\* the operations that change dbData.sessions
MutatingOps == {"upload", "removePhoto", "deleteSession", "finishSession",
                "submitSelection"}

\* C15: mutating operations are serialized: while a mutating handler is in
\* flight (started, its save not yet completed) no other mutating handler
\* runs its step on the repository.
C15_MutationsSerialized ==
    [][reqs # EmptyBag => ~(ev'.op \in MutatingOps /\ ev'.code = 200)]_vars

\* C16: on a file system whose writes all succeed, whenever no handler is in
\* flight (every mutating request has been answered, after its save) db.json
\* holds the in-memory document, also after writes that overlapped and
\* settled in another order than they were issued.
C16_SavedWhenIdle ==
    reqs = EmptyBag => disk = Document("ok", sessions)

\* C17: when the write of a save fails, the in-memory document is kept as it
\* is, no other write is started for it, the request is answered 200, and
\* db.json holds what it held before the failed write.
C17_FailedSaveKeepsDocument ==
    [][ev'.op = "respond" =>
         \A r \in Writes :
            SaveDone(r, FALSE) =>
               /\ sessions' = sessions
               /\ reqs' = Resume(reqs, r)
               /\ ev'.code = 200
               /\ disk' = disk]_vars
\* ------------------------------------------------------------------ loading db.json
\* C18: loadData on a missing db.json sets dbData to the empty default and
\* starts the write of that default, which creates db.json before the
\* server listens; loadData on a db.json that does not parse sets dbData to
\* the empty default, writes nothing and leaves db.json as it is.
C18_LoadDefaults ==
    [][/\ (ev.op = "start" /\ disk.state = "missing") =>
            /\ sessions' = EmptySessions
            /\ portfolio' = NoItems
            /\ reqs' = SetToBag({Creating(EmptySessions, NoItems)})
            /\ ev'.op # "listen"
       /\ ev.op = "loadData" =>
            /\ disk' = DocumentOf("ok", EmptySessions, NoItems)
            /\ sessions' = EmptySessions
            /\ portfolio' = NoItems
            /\ reqs' = EmptyBag
            /\ ev'.op = "listen"
       /\ (ev.op = "start" /\ disk.state = "truncated") =>
            /\ sessions' = EmptySessions
            /\ portfolio' = NoItems
            /\ disk' = disk
            /\ reqs' = EmptyBag
            /\ ev'.op = "listen"]_vars

\* the server listens with the empty default after it found a db.json that
\* does not parse: the file is as it was and nothing is being written
C18_Witness ==
    /\ ev = Event("listen", 0)
    /\ disk = Unreadable("truncated")
    /\ sessions = EmptySessions
    /\ portfolio = NoItems
    /\ qrcodes = {}
    /\ reqs = EmptyBag

\* C19: in every state reached, the document saveData writes for the
\* in-memory state is parsed by loadData to that same state (the same
\* sessions in the same order with the same customerName, status, createdAt
\* and photos, the same portfolio items in the same order), and when the
\* write of a save has settled, loadData of db.json yields the in-memory
\* state.
C19_RoundTrip ==
    [][/\ loadData(DocumentOf("ok", sessions', portfolio')).dbData
             = [sessions |-> sessions', portfolioItems |-> portfolio']
       /\ ev'.op = "respond" =>
             loadData(disk').dbData
                 = [sessions |-> sessions', portfolioItems |-> portfolio']]_vars

\* the server listens after a restart, having loaded the document saved
\* before it: a session with a selected photo and a not selected one, and
\* a portfolio item
C19_Witness ==
    /\ ev = Event("listen", 0)
    /\ disk = DocumentOf("ok", sessions, portfolio)
    /\ portfolio # NoItems
    /\ \E i \in 1..Len(sessions) :
          /\ sessions[i].customerName # UNKNOWN_CUSTOMER
          /\ \E j \in 1..Len(sessions[i].photos) : sessions[i].photos[j].selected

\* ------------------------------------------------------------------ customer name
\* C20: the customerName of a session that exists changes only in an upload
\* into it that carries a name while the stored name is the sentinel; a
\* stored name other than the sentinel is changed by no operation, and an
\* upload that carries no name changes no name.
C20_BackfillOnlySentinel ==
    [][\A sid \in Keys(sessions) \cap Keys(sessions') :
          Get(sessions', sid).customerName # Get(sessions, sid).customerName =>
              /\ Get(sessions, sid).customerName = UNKNOWN_CUSTOMER
              /\ ev' = Event("upload", 200)
              /\ \E nameIn \in GivenNames \ {NoText} :
                    /\ Upload(sid, nameIn)
                    /\ Get(sessions', sid).customerName = nameIn]_vars

\* an upload has just given a name to the session loaded without one
C20_Witness ==
    /\ ev = Event("upload", 200)
    /\ boot # EmptySessions
    /\ Get(boot, PriorId).customerName = UNKNOWN_CUSTOMER
    /\ Has(sessions, PriorId)
    /\ Get(sessions, PriorId).customerName = <<"A", "b">>
    /\ Len(Get(sessions, PriorId).photos) = 1

\* ------------------------------------------------------------------ files and records
\* some photo record of some session names the file
Referenced(ss, filename) ==
    \E i \in 1..Len(ss) : filename \in Filenames(ss[i])

\* C22: with unlinks that fail only on a missing file, whenever no handler
\* is in flight every file in the upload directory is named by a photo
\* record of some session, also after an upload into a session that ran
\* while the deletion of that session was waiting for its unlinks.
C22_NoOrphanFiles ==
    reqs = EmptyBag => \A filename \in files : Referenced(sessions, filename)

\* ------------------------------------------------------------------ reads
\* the operations that only read the repository
ReadOps == {"getSessions", "listPhotos", "getPortfolio", "generateQRCode"}

\* C21: listing the sessions, listing the photos of a session, listing the
\* portfolio with or without a category and generating a QR code leave
\* dbData as it is, the order of the photos and of the portfolio items
\* included, and so leave the text the next saveData writes as it is.
C21_ReadsChangeNothing ==
    [][ev'.op \in ReadOps =>
          /\ sessions' = sessions
          /\ portfolio' = portfolio
          /\ stringify(sessions', portfolio') = stringify(sessions, portfolio)]_vars

====
